---------------------------- MODULE Spec2Model ----------------------------
(***************************************************************************)
(* State-machine model of the image viewer (blindley/viewer).              *)
(*                                                                         *)
(* The list variant (src/src/main.rs) is modelled: AppData with its        *)
(* sequence of TextureFile entries, the current index, the poll            *)
(* accumulator and the renderer, driven by the event-loop handlers of      *)
(* main().  The file system, which the program only observes through       *)
(* std::fs::metadata, is an environment that may rewrite or remove the     *)
(* files between events.  The scale the renderer sends to the quad is     *)
(* computed in IEEE single precision, as the code computes it.             *)
(*                                                                         *)
(* Specifications: Spec (keys, timer, files), InputSpec (window events),   *)
(* ScaleSpec (resizes with polling), StartSpec (AppData::new), FitSpec     *)
(* (the scale computation alone) and ViewerSpec, the single-image variant  *)
(* (src/viewer), whose reload decodes the file into the same texture;      *)
(* LoopSpec (every event of the loop, up to its end), LiveSpec (polling    *)
(* under weak fairness of the timer), TripSpec (navigation round trips)    *)
(* and SigSpec (the comparison of two file signatures).                    *)
(*                                                                         *)
(* Indices are 0-based as in the Rust code; the TLA+ sequence holding the  *)
(* Vec is accessed at index + 1.                                           *)
(***************************************************************************)
EXTENDS Integers, Sequences, FiniteSets, TLC

\* ------------------------------------------------------------------ bounds
\* Largest number of image paths given on the command line.
MaxImages == 3

\* File contents are identified by a version number 0..MaxVersion.
MaxVersion == 1

\* Number of frame quanta that make up the 1.0 second poll period
\* (60 in the program: frame_duration is 1/60 s; scaled down here).
FramesPerSecond == 2

\* Largest number of times other programs rewrite or remove a listed file
\* while the viewer runs.
MaxFileEvents == 1

\* Largest window and image width and height for which the scale
\* computation is evaluated on its own.
MaxDim == 6

\* --------------------------------------------------------------- constants
\* One frame quantum: the unit in which seconds_elapsed is counted.
frame_duration == 1

\* The 1.0 second threshold of update(), in frame quanta.
OneSecond == FramesPerSecond * frame_duration

Versions == 0..MaxVersion

\* Instants are kept modulo the poll period, which keeps the clock finite.
ClockPeriod == OneSecond

VARIABLES
    image_paths,          \* AppData.image_paths: Seq of TextureFile
    current_image_index,  \* AppData.current_image_index (0-based)
    seconds_elapsed,      \* AppData.seconds_elapsed, in frame quanta
    renderer,             \* AppData.renderer (its ImageRenderer fields)
    gl_textures,          \* GPU memory: texture id -> pixels <<path, version>>
    files,                \* file system: path -> <<version>>, or <<>> if missing
    file_events,          \* number of external file changes so far
    pc,                   \* "start" | "running" | "panicked" | "exited"
                          \* | "exit_failure"
    ev,                   \* the last event handled and what it did
    window_size,          \* AppData.window_size
    cursor_position,      \* AppData.cursor_position
    title,                \* the window title
    redraw_requested,     \* the handler of the last event called
                          \* window().request_redraw()
    next_update_time      \* the deadline of the next timer wake-up, in frame
                          \* quanta modulo the poll period

ui_vars == <<window_size, cursor_position, title, redraw_requested>>

vars == <<image_paths, current_image_index, seconds_elapsed, renderer,
          gl_textures, files, file_events, pc, ev, window_size,
          cursor_position, title, redraw_requested, next_update_time>>

\* ------------------------------------------------------- f32 arithmetic
\* A non-negative f32 is [k, m, e]: k = "fin" stands for m * 2^e with m = 0
\* or 2^23 <= m < 2^24 (the 24-bit significand), k = "inf" for +infinity and
\* k = "nan" for NaN.  Operations round to nearest, ties to even, as the
\* hardware does.  Exponent range limits are not reached by the small
\* magnitudes used here.
\* 2^23, the least normalised significand; 2^24, the first value beyond the
\* significand; 2^12, the half-width used to multiply within 32-bit integers.
f32_min_significand == 8388608
f32_significand_limit == 16777216
f32_half_width == 4096

\* The single element of a one-element set: `evaluated({e})` computes e once
\* where a definition would compute it again at every use.
evaluated(S) == CHOOSE x \in S : TRUE

f32_zero == [k |-> "fin", m |-> 0, e |-> 0]
f32_one == [k |-> "fin", m |-> f32_min_significand, e |-> 0 - 23]
f32_inf == [k |-> "inf", m |-> 0, e |-> 0]
f32_nan == [k |-> "nan", m |-> 0, e |-> 0]

\* Shift the significand me.m left by `bits` (a factor `radix` = 2^bits) when
\* that keeps it below 2^24.
f32_shift(me, radix, bits) ==
    IF me.m * radix < f32_significand_limit
    THEN [m |-> me.m * radix, e |-> me.e - bits]
    ELSE me

\* m * 2^e with 0 < m < 2^24, significand brought into [2^23, 2^24).
f32_normalize(m, e) ==
    LET s16 == f32_shift([m |-> m, e |-> e], 65536, 16)
        s8 == f32_shift(s16, 256, 8)
        s4 == f32_shift(s8, 16, 4)
        s2 == f32_shift(s4, 4, 2)
        s1 == f32_shift(s2, 2, 1)
    IN [k |-> "fin", m |-> s1.m, e |-> s1.e]

\* `n as f32` for 0 <= n < 2^15 (exact).
f32_from_i32(n) == IF n = 0 THEN f32_zero ELSE f32_normalize(n, 0)

\* Round the significand q with remainder rem out of unit (ties to even).
f32_round(q, rem, unit, e) ==
    LET up == 2 * rem > unit \/ (2 * rem = unit /\ q % 2 = 1)
        m == IF up THEN q + 1 ELSE q
    IN IF m = f32_significand_limit
       THEN [k |-> "fin", m |-> f32_min_significand, e |-> e + 1]
       ELSE [k |-> "fin", m |-> m, e |-> e]

\* Long division, radix further quotient bits at a time: the quotient so far
\* and the remainder of the dividend over d (radix * d stays below 2^31).
f32_div_step(qr, d, radix) ==
    [q |-> qr.q * radix + (qr.r * radix) \div d,
     r |-> (qr.r * radix) % d]

\* a / b for values a, b
f32_div_values(a, b) ==
    IF a.k = "nan" \/ b.k = "nan" THEN f32_nan
    ELSE IF a.k = "inf" THEN (IF b.k = "inf" THEN f32_nan ELSE f32_inf)
    ELSE IF b.k = "inf" THEN f32_zero
    ELSE IF b.m = 0 THEN (IF a.m = 0 THEN f32_nan ELSE f32_inf)
    ELSE IF a.m = 0 THEN f32_zero
    ELSE LET n == IF a.m >= b.m THEN 23 ELSE 24
             s0 == [q |-> a.m \div b.m, r |-> a.m % b.m]
             s1 == f32_div_step(s0, b.m, 128)
             s2 == f32_div_step(s1, b.m, 128)
             s3 == f32_div_step(s2, b.m, 128)
             d == f32_div_step(s3, b.m, IF n = 24 THEN 8 ELSE 4)
         IN f32_round(d.q, d.r, b.m, a.e - b.e - n)

\* a / b
f32_div(x, y) == evaluated({f32_div_values(a, b) : a \in {x}, b \in {y}})

\* a * b for values a, b
f32_mul_values(a, b) ==
    IF a.k = "nan" \/ b.k = "nan" THEN f32_nan
    ELSE IF a.k = "inf" \/ b.k = "inf"
         THEN (IF (a.k = "fin" /\ a.m = 0) \/ (b.k = "fin" /\ b.m = 0)
               THEN f32_nan ELSE f32_inf)
    ELSE IF a.m = 0 \/ b.m = 0 THEN f32_zero
    ELSE LET B == f32_half_width
             a1 == a.m \div B
             a0 == a.m % B
             b1 == b.m \div B
             b0 == b.m % B
             mid == a1 * b0 + a0 * b1
             t == a0 * b0 + (mid % B) * B
             L == t % f32_significand_limit
             H == a1 * b1 + (mid \div B) + (t \div f32_significand_limit)
         IN IF H >= f32_min_significand
            THEN f32_round(H, L, f32_significand_limit, a.e + b.e + 24)
            ELSE f32_round(2 * H + (L \div f32_min_significand), L % f32_min_significand,
                           f32_min_significand, a.e + b.e + 23)

\* a * b
f32_mul(x, y) == evaluated({f32_mul_values(a, b) : a \in {x}, b \in {y}})

\* a < b (false when either is NaN)
f32_lt(a, b) ==
    IF a.k = "nan" \/ b.k = "nan" THEN FALSE
    ELSE IF a.k = "inf" THEN FALSE
    ELSE IF b.k = "inf" THEN TRUE
    ELSE IF b.m = 0 THEN FALSE
    ELSE IF a.m = 0 THEN TRUE
    ELSE a.e < b.e \/ (a.e = b.e /\ a.m < b.m)

\* ------------------------------------------------------- files and images
\* std::fs::metadata of a file holding content version v.  Consecutive
\* versions differ in exactly one of (modified, len): 0 -> (0,1),
\* 1 -> (1,1), 2 -> (1,2), 3 -> (2,2), ...
metadata(v) ==
    [modified |-> (v + 1) \div 2, created |-> 0, len |-> 1 + (v \div 2)]

\* Width and height of the image decoded from version v of path p.
image_size(p, v) ==
    <<1 + ((p + v) % 2), 1 + (((p + v) \div 2) % 2)>>

\* Variant of FileSignature_new that swallows the metadata error and returns
\* an empty signature instead of Err.
FileSignature_new_default(path) ==
    IF files[path] = <<>>
    THEN [ok |-> TRUE,
          sig |-> [modified |-> <<>>, created |-> <<>>, len |-> 0]]
    ELSE LET mdata == metadata(files[path][1])
         IN [ok |-> TRUE,
             sig |-> [modified |-> <<mdata.modified>>,
                      created |-> <<mdata.created>>,
                      len |-> mdata.len]]

\* FileSignature::new: Err when the metadata cannot be read, otherwise the
\* three metadata fields (Option timestamps as <<t>> = Some(t)).
FileSignature_new(path) ==
    IF files[path] = <<>>
    THEN [ok |-> FALSE,
          sig |-> [modified |-> <<>>, created |-> <<>>, len |-> 0]]
    ELSE LET mdata == metadata(files[path][1])
         IN [ok |-> TRUE,
             sig |-> [modified |-> <<mdata.modified>>,
                      created |-> <<mdata.created>>,
                      len |-> mdata.len]]

\* Variant of FileSignature_eq that compares the timestamps only.
FileSignature_eq_timestamps_only(a, b) ==
    /\ a.modified = b.modified
    /\ a.created = b.created

\* #[derive(PartialEq)] on FileSignature: field-wise equality.
FileSignature_eq(a, b) ==
    /\ a.modified = b.modified
    /\ a.created = b.created
    /\ a.len = b.len

\* Texture::from_file for the i-th created texture: a fresh id and the
\* decoded size.
Texture_from_file(id, p, v) ==
    [texture_id |-> id, size |-> image_size(p, v)]

\* ---------------------------------------------------------------- renderer
\* ImageRenderer::set_texture_data(&Texture): on success the renderer shows
\* the given texture and reports its size; on failure nothing changes.
ImageRenderer_set_texture_data(r, texture, ok) ==
    IF ok
    THEN [r EXCEPT !.texture = texture.texture_id,
                   !.texture_size = texture.size,
                   !.texture_loaded = TRUE]
    ELSE r

\* StableAspectRatioImageRenderer::new, around a fresh ImageRenderer that
\* shows nothing yet.
StableAspectRatioImageRenderer_new ==
    [texture |-> 0,
     texture_size |-> <<0, 0>>,
     texture_loaded |-> FALSE,
     window_size |-> <<1, 1>>,
     scale |-> <<f32_one, f32_one>>,
     scale_uniform |-> <<f32_one, f32_one>>]

\* Variant of recalculate_aspect_ratio_scale that always shrinks the
\* horizontal scale, whatever the two aspect ratios are.
recalculate_aspect_ratio_scale_x_only(window, scale, image) ==
    LET view_width == f32_mul(f32_from_i32(window[1]), scale[1])
        view_height == f32_mul(f32_from_i32(window[2]), scale[2])
        view_aspect_ratio == f32_div(view_width, view_height)
        image_aspect_ratio == f32_div(f32_from_i32(image[1]),
                                      f32_from_i32(image[2]))
        xscale == f32_div(image_aspect_ratio, view_aspect_ratio)
    IN <<f32_mul(scale[1], xscale), scale[2]>>

\* Variant of recalculate_aspect_ratio_scale that multiplies both axes by the
\* quotient of the aspect ratios.
recalculate_aspect_ratio_scale_both_axes(window, scale, image) ==
    LET view_width == f32_mul(f32_from_i32(window[1]), scale[1])
        view_height == f32_mul(f32_from_i32(window[2]), scale[2])
        view_aspect_ratio == f32_div(view_width, view_height)
        image_aspect_ratio == f32_div(f32_from_i32(image[1]),
                                      f32_from_i32(image[2]))
    IN IF f32_lt(view_aspect_ratio, image_aspect_ratio)
       THEN LET yscale == f32_div(view_aspect_ratio, image_aspect_ratio)
            IN <<f32_mul(scale[1], yscale), f32_mul(scale[2], yscale)>>
       ELSE LET xscale == f32_div(image_aspect_ratio, view_aspect_ratio)
            IN <<f32_mul(scale[1], xscale), f32_mul(scale[2], xscale)>>

\* The body of StableAspectRatioImageRenderer::recalculate_aspect_ratio: the
\* scale it passes to image_renderer.set_scale, from the stored window size,
\* the stored pre-scale and the displayed image's size.
recalculate_aspect_ratio_scale(window, scale, image) ==
    LET view_width == f32_mul(f32_from_i32(window[1]), scale[1])
        view_height == f32_mul(f32_from_i32(window[2]), scale[2])
        view_aspect_ratio == f32_div(view_width, view_height)
        image_aspect_ratio == f32_div(f32_from_i32(image[1]),
                                      f32_from_i32(image[2]))
    IN IF f32_lt(view_aspect_ratio, image_aspect_ratio)
       THEN LET yscale == f32_div(view_aspect_ratio, image_aspect_ratio)
            IN <<scale[1], f32_mul(scale[2], yscale)>>
       ELSE LET xscale == f32_div(image_aspect_ratio, view_aspect_ratio)
            IN <<f32_mul(scale[1], xscale), scale[2]>>

\* The window sizes a resize event delivers (a minimised window reports a
\* width or height of 0), and the image sizes that occur.
WindowSizes == {<<0, 0>>, <<0, 2>>, <<2, 0>>, <<1, 2>>, <<2, 1>>}
ImageSizes == {image_size(p, v) : p \in 1..MaxImages, v \in Versions}

\* recalculate_aspect_ratio_scale under the pre-scale (1.0, 1.0) for the
\* sizes above, computed once (`@@ << >>` keeps the function as a table of
\* its values instead of its defining expression).
recalculate_aspect_ratio_table ==
    [a \in (WindowSizes \cup {<<1, 1>>}) \X ImageSizes |->
        recalculate_aspect_ratio_scale(a[1], <<f32_one, f32_one>>, a[2])]
    @@ << >>

\* StableAspectRatioImageRenderer::recalculate_aspect_ratio: the scale sent
\* to the image renderer (its `scale` uniform).
recalculate_aspect_ratio(r) ==
    [r EXCEPT !.scale_uniform =
        IF /\ r.scale = <<f32_one, f32_one>>
           /\ <<r.window_size, r.texture_size>>
                  \in DOMAIN recalculate_aspect_ratio_table
        THEN recalculate_aspect_ratio_table[<<r.window_size, r.texture_size>>]
        ELSE recalculate_aspect_ratio_scale(r.window_size, r.scale,
                                            r.texture_size)]

\* Variant of StableAspectRatioImageRenderer_resize_window that stores the
\* size without recalculating the scale.
StableAspectRatioImageRenderer_resize_window_stale(r, size) ==
    [r EXCEPT !.window_size = size]

\* StableAspectRatioImageRenderer::resize_window
StableAspectRatioImageRenderer_resize_window(r, size) ==
    recalculate_aspect_ratio([r EXCEPT !.window_size = size])

\* StableAspectRatioImageRenderer::set_texture_data: forwards to the image
\* renderer, `?` propagates its error; on success the scale is recalculated.
set_texture_data(r, texture, ok) ==
    [res |-> IF ok THEN "ok" ELSE "err",
     renderer |->
        IF ok
        THEN recalculate_aspect_ratio(
                 ImageRenderer_set_texture_data(r, texture, ok))
        ELSE ImageRenderer_set_texture_data(r, texture, ok)]

\* AppData::reload_texture on the given sequence and index.  Indexing the
\* Vec out of bounds panics ("oob"); otherwise the cached texture of the
\* current entry is handed to the renderer.
reload_texture(paths, index, r, ok) ==
    IF index + 1 \in DOMAIN paths
    THEN set_texture_data(r, paths[index + 1].texture, ok)
    ELSE [res |-> "oob", renderer |-> r]

\* `std::time::Instant::now() + frame_duration`, with the instant at which
\* main() reads the clock taken as 0.
first_update_time == (0 + frame_duration) % ClockPeriod

\* Variant of advance_update_time that skips a frame.
advance_update_time_skips_a_frame(time, duration) ==
    (time + 2 * duration) % ClockPeriod

\* `next_update_time = next_update_time + frame_duration`
advance_update_time(time, duration) == (time + duration) % ClockPeriod

\* Variant of closure_control_flow that assigns the wake-up deadline after
\* the match instead of before it.
closure_control_flow_deadline_last(arm) == "WaitUntil"

\* The ControlFlow the closure of main() leaves behind: WaitUntil(
\* next_update_time) is assigned before the match on the event, and an arm
\* that assigns ("Exit", or "WaitUntil" again in the timer arm) does so
\* after it; arm = "none" for an arm that assigns nothing.
closure_control_flow(arm) == IF arm = "none" THEN "WaitUntil" ELSE arm

\* EventLoop::run around one call of the closure: the loop ends when the
\* closure leaves Exit behind and, once ended, stays ended (the closure is
\* then handed a scratch ControlFlow, so that what it assigns is lost).
event_loop_run(position, control_flow) ==
    IF position = "exited" \/ control_flow = "Exit"
    THEN "exited" ELSE "running"

Event(op, from, reload, capture, ret) ==
    [op |-> op, from |-> from, reload |-> reload, capture |-> capture,
     ret |-> ret]

\* -------------------------------------------------------------------- Init
\* The state after AppData::new succeeded on n >= 1 readable files: every
\* entry caches the texture and signature of version 0 of its file and the
\* renderer shows entry 0.
Init ==
    \E n \in 1..MaxImages :
        /\ files = [p \in 1..n |-> <<0>>]
        /\ file_events = 0
        /\ image_paths =
             [i \in 1..n |->
                [texture |-> Texture_from_file(i, i, 0),
                 path |-> i,
                 sig |-> [modified |-> <<metadata(0).modified>>,
                          created |-> <<metadata(0).created>>,
                          len |-> metadata(0).len]]]
        /\ gl_textures = [i \in 1..n |-> <<i, 0>>]
        /\ current_image_index = 0
        /\ seconds_elapsed = 0
        /\ renderer =
             set_texture_data(StableAspectRatioImageRenderer_new,
                              Texture_from_file(1, 1, 0), TRUE).renderer
        /\ pc = "running"
        /\ ev = Event("init", 0, "ok", "none", FALSE)
        /\ window_size = <<1, 1>>
        /\ cursor_position = <<0, 0>>
        /\ title = <<1>>
        /\ redraw_requested = FALSE
        /\ next_update_time = first_update_time

\* ---------------------------------------------------------------- startup
\* main() up to the call of AppData::new: the paths of the command line are
\* 1..n, each naming a file that is missing or holds version 0, and the
\* window has been created with the first path as its title.
StartInit ==
    \E n \in 1..MaxImages :
        /\ files \in [1..n -> {<< >>, <<0>>}]
        /\ file_events = 0
        /\ image_paths = << >>
        /\ gl_textures = << >>
        /\ current_image_index = 0
        /\ seconds_elapsed = 0
        /\ renderer = StableAspectRatioImageRenderer_new
        /\ pc = "start"
        /\ ev = Event("start", 0, "none", "none", FALSE)
        /\ window_size = <<1, 1>>
        /\ cursor_position = <<0, 0>>
        /\ title = <<1>>
        /\ redraw_requested = FALSE
        /\ next_update_time = first_update_time

\* AppData::new: FileSignature::new(p).unwrap() and
\* Texture::from_file(p).unwrap() for every path in order, then
\* reload_texture(), whose Err prints "failed to load" and calls
\* std::process::exit(-1).  `decodes` is whether every file that can be read
\* holds an image the decoder accepts.
AppData_new ==
    /\ pc = "start"
    /\ \E decodes \in BOOLEAN, ok \in BOOLEAN :
         LET n == Len(files)
             unreadable == {p \in 1..n : ~FileSignature_new(p).ok}
         IN IF unreadable # {} \/ ~decodes
            THEN /\ pc' = "panicked"
                 /\ ev' = Event("init", 0, "none", "err", FALSE)
                 /\ UNCHANGED <<image_paths, current_image_index,
                                seconds_elapsed, renderer, gl_textures>>
            ELSE LET paths ==
                         [i \in 1..n |->
                             [texture |-> Texture_from_file(i, i, files[i][1]),
                              path |-> i,
                              sig |-> FileSignature_new(i).sig]]
                     r == reload_texture(paths, 0, renderer, ok)
                 IN /\ image_paths' = paths
                    /\ gl_textures' = [i \in 1..n |-> <<i, files[i][1]>>]
                    /\ current_image_index' = 0
                    /\ seconds_elapsed' = 0
                    /\ renderer' = r.renderer
                    /\ pc' = IF r.res = "ok" THEN "running"
                             ELSE "exit_failure"
                    /\ ev' = Event("init", 0, r.res, "none", FALSE)
    /\ UNCHANGED <<files, file_events, window_size, cursor_position, title,
                   redraw_requested,
                   next_update_time>>

\* ------------------------------------------------------------- navigation
\* The tail shared by cycle_left, cycle_right and drop_current: the new
\* sequence and index are stored, then `self.reload_texture().unwrap()`
\* runs; an Err or an out-of-bounds index panics.
reload_texture_unwrap(op, paths, index) ==
    \E ok \in BOOLEAN :
        LET r == reload_texture(paths, index, renderer, ok)
        IN /\ image_paths' = paths
           /\ current_image_index' = index
           /\ renderer' = r.renderer
           /\ pc' = IF r.res = "ok" THEN "running" ELSE "panicked"
           /\ ev' = Event(op, current_image_index, r.res, "none", FALSE)
           /\ UNCHANGED <<seconds_elapsed, gl_textures, files, file_events>>

\* Variant of swap_image_positions that exchanges the paths of the two
\* entries and leaves their textures and signatures where they are.
swap_image_positions_paths_only(paths, a, b) ==
    [paths EXCEPT ![a + 1].path = paths[b + 1].path,
                  ![b + 1].path = paths[a + 1].path]

\* Vec::swap(a, b) with 0-based positions.
swap_image_positions(paths, a, b) ==
    [paths EXCEPT ![a + 1] = paths[b + 1], ![b + 1] = paths[a + 1]]

\* What each navigation operation makes of the sequence and the index,
\* before any reload: the new sequence and the new index.
\* Variant of cycle_left_of without the modulo.
cycle_left_of_no_modulo(paths, index) ==
    [paths |-> paths, index |-> index + Len(paths) - 1]

\* cycle_left: `(current_image_index + len - 1) % len`
cycle_left_of(paths, index) ==
    [paths |-> paths, index |-> (index + Len(paths) - 1) % Len(paths)]

\* cycle_right: `(current_image_index + 1) % len`
cycle_right_of(paths, index) ==
    [paths |-> paths, index |-> (index + 1) % Len(paths)]

\* shift_right: swap with the next position, cyclically, and follow.
shift_right_of(paths, index) ==
    LET other_index == (index + 1) % Len(paths)
    IN [paths |-> swap_image_positions(paths, index, other_index),
        index |-> other_index]

\* shift_left: swap with the previous position, cyclically, and follow.
shift_left_of(paths, index) ==
    LET other_index == (index + Len(paths) - 1) % Len(paths)
    IN [paths |-> swap_image_positions(paths, index, other_index),
        index |-> other_index]

\* Variant of cycle_left that forgets the modulo.
cycle_left_no_modulo ==
    /\ pc = "running"
    /\ LET new_index == current_image_index + Len(image_paths) - 1
       IN reload_texture_unwrap("cycle_left", image_paths, new_index)

cycle_left ==
    /\ pc = "running"
    /\ LET new == cycle_left_of(image_paths, current_image_index)
       IN reload_texture_unwrap("cycle_left", new.paths, new.index)

\* Variant of cycle_right that stops at the last entry instead of wrapping.
cycle_right_no_wrap ==
    /\ pc = "running"
    /\ LET new_index == current_image_index + 1
       IN reload_texture_unwrap("cycle_right", image_paths,
              IF new_index = Len(image_paths)
              THEN current_image_index ELSE new_index)

cycle_right ==
    /\ pc = "running"
    /\ LET new == cycle_right_of(image_paths, current_image_index)
       IN reload_texture_unwrap("cycle_right", new.paths, new.index)

\* Variant of shift_right that swaps but leaves the index behind.
shift_right_index_stays ==
    /\ pc = "running"
    /\ LET this_index == current_image_index
           other_index == (this_index + 1) % Len(image_paths)
       IN /\ image_paths' =
                swap_image_positions(image_paths, this_index, other_index)
          /\ current_image_index' = this_index
          /\ ev' = Event("shift_right", this_index, "none", "none", FALSE)
    /\ UNCHANGED <<seconds_elapsed, renderer, gl_textures, files, file_events,
                   pc>>

shift_right ==
    /\ pc = "running"
    /\ LET new == shift_right_of(image_paths, current_image_index)
       IN /\ image_paths' = new.paths
          /\ current_image_index' = new.index
          /\ ev' = Event("shift_right", current_image_index, "none", "none",
                         FALSE)
    /\ UNCHANGED <<seconds_elapsed, renderer, gl_textures, files, file_events,
                   pc>>

\* Variant of shift_left that reloads the texture after the swap, as the
\* cycle operations do.
shift_left_reloads ==
    /\ pc = "running"
    /\ LET this_index == current_image_index
           other_index ==
               (this_index + Len(image_paths) - 1) % Len(image_paths)
       IN reload_texture_unwrap(
              "shift_left",
              swap_image_positions(image_paths, this_index, other_index),
              other_index)

shift_left ==
    /\ pc = "running"
    /\ LET new == shift_left_of(image_paths, current_image_index)
       IN /\ image_paths' = new.paths
          /\ current_image_index' = new.index
          /\ ev' = Event("shift_left", current_image_index, "none", "none",
                         FALSE)
    /\ UNCHANGED <<seconds_elapsed, renderer, gl_textures, files, file_events,
                   pc>>

\* Vec::remove(index) with a 0-based position.
remove(paths, index) ==
    [k \in 1..(Len(paths) - 1) |->
        IF k < index + 1 THEN paths[k] ELSE paths[k + 1]]

\* Variant of drop_current that always restarts at the first entry.
drop_current_to_first ==
    /\ pc = "running"
    /\ LET paths == remove(image_paths, current_image_index)
       IN reload_texture_unwrap("drop_current", paths, 0)

drop_current ==
    /\ pc = "running"
    /\ LET paths == remove(image_paths, current_image_index)
       IN reload_texture_unwrap("drop_current", paths,
              IF current_image_index = Len(paths)
              THEN 0 ELSE current_image_index)

\* ----------------------------------------------------------------- polling
\* Variant of poll_due with a strict comparison.
poll_due_strict(acc) == acc > OneSecond

\* `if self.seconds_elapsed >= 1.0`
poll_due(acc) == acc >= OneSecond

\* Variant of store_sig that stores the signature in every entry.
store_sig_in_every_entry(paths, i, sig) ==
    [k \in DOMAIN paths |-> [paths[k] EXCEPT !.sig = sig]]

\* Variant of store_sig that leaves the stored signature alone.
store_sig_skipped(paths, i, sig) == paths

\* `f.sig = sig` for the entry at (1-based) position i.
store_sig(paths, i, sig) == [paths EXCEPT ![i].sig = sig]

\* Variant of is_ok that reports success whatever the reload returned.
is_ok_ignored(res) == TRUE

\* Result::is_ok on the value of reload_texture().
is_ok(res) == res = "ok"

\* AppData::update(seconds): accumulate; when the accumulator reaches one
\* second reset it, capture the current file's signature, and on a change
\* store the new signature and reload.
update(seconds) ==
    /\ pc = "running"
    /\ LET acc == seconds_elapsed + seconds
           i == current_image_index + 1
           from == current_image_index
       IN IF poll_due(acc)
          THEN LET f == image_paths[i]
                   new == FileSignature_new(f.path)
               IN /\ seconds_elapsed' = 0
                  /\ IF new.ok
                     THEN IF ~FileSignature_eq(f.sig, new.sig)
                          THEN \E ok \in BOOLEAN :
                                 LET paths == store_sig(image_paths, i,
                                                       new.sig)
                                     r == reload_texture(paths, from,
                                                         renderer, ok)
                                 IN /\ image_paths' = paths
                                    /\ renderer' = r.renderer
                                    /\ ev' = Event("update", from, r.res,
                                                   "ok", is_ok(r.res))
                          ELSE /\ UNCHANGED <<image_paths, renderer>>
                               /\ ev' = Event("update", from, "none",
                                              "ok", FALSE)
                     ELSE /\ UNCHANGED <<image_paths, renderer>>
                          /\ ev' = Event("update", from, "none",
                                         "err", FALSE)
          ELSE /\ seconds_elapsed' = acc
               /\ UNCHANGED <<image_paths, renderer>>
               /\ ev' = Event("update", from, "none", "none", FALSE)
    /\ UNCHANGED <<current_image_index, gl_textures, files, file_events, pc>>

\* main(): StartCause::ResumeTimeReached calls update with one frame and
\* requests a redraw when it returns true.
ResumeTimeReached ==
    /\ update(frame_duration)
    /\ redraw_requested' = ev'.ret
    /\ next_update_time' =
          advance_update_time(next_update_time, frame_duration)
    /\ UNCHANGED <<window_size, cursor_position, title>>

\* ------------------------------------------------------------ key handler
\* Variant of new_window_title that writes the 0-based index.
new_window_title_zero_based(paths, index, r, cursor) ==
    <<paths[index + 1].path, r.texture_size[1], r.texture_size[2],
      index, Len(paths), cursor[1], cursor[2]>>

\* AppData::new_window_title: the fields that format! writes, in order:
\* "{path} | {width}x{height} | {index+1}/{total} | ({x},{y})".
new_window_title(paths, index, r, cursor) ==
    <<paths[index + 1].path, r.texture_size[1], r.texture_size[2],
      index + 1, Len(paths), cursor[1], cursor[2]>>

\* `wc.window().set_title(&app_data.new_window_title())` after an operation
\* of the key handler; not reached when the operation panicked.
set_title ==
    title' = IF pc' = "running"
             THEN new_window_title(image_paths', current_image_index',
                                   renderer', cursor_position')
             ELSE title

\* The key events delivered: every key the handler matches, with and
\* without shift where it looks at shift, and events it matches nothing for.
KeyboardInputs ==
    {<<"Escape", "Pressed", FALSE>>,
     <<"Left", "Pressed", FALSE>>, <<"Left", "Pressed", TRUE>>,
     <<"Right", "Pressed", FALSE>>, <<"Right", "Pressed", TRUE>>,
     <<"X", "Pressed", FALSE>>, <<"X", "Pressed", TRUE>>,
     <<"A", "Pressed", FALSE>>,
     <<"Left", "Released", TRUE>>}

\* Variant of KeyboardInput that also acts when the key is released.
KeyboardInput_any_state(key, state, shift) ==
    \/ /\ key = "Escape"
       /\ pc = "running"
       /\ pc' = event_loop_run(pc, closure_control_flow("Exit"))
       /\ ev' = Event("escape", current_image_index, "none", "none", FALSE)
       /\ redraw_requested' = FALSE
       /\ UNCHANGED next_update_time
       /\ UNCHANGED <<image_paths, current_image_index, seconds_elapsed,
                      renderer, gl_textures, files, file_events,
                      window_size, cursor_position, title>>
    \/ /\ key = "Left"
       /\ shift
       /\ shift_left
       /\ UNCHANGED <<window_size, cursor_position>>
       /\ set_title
       /\ redraw_requested' = FALSE
       /\ UNCHANGED next_update_time
    \/ /\ key = "Left"
       /\ ~shift
       /\ cycle_left
       /\ UNCHANGED <<window_size, cursor_position>>
       /\ set_title
       /\ redraw_requested' = (pc' = "running")
       /\ UNCHANGED next_update_time
    \/ /\ key = "Right"
       /\ shift
       /\ shift_right
       /\ UNCHANGED <<window_size, cursor_position>>
       /\ set_title
       /\ redraw_requested' = FALSE
       /\ UNCHANGED next_update_time
    \/ /\ key = "Right"
       /\ ~shift
       /\ cycle_right
       /\ UNCHANGED <<window_size, cursor_position>>
       /\ set_title
       /\ redraw_requested' = (pc' = "running")
       /\ UNCHANGED next_update_time
    \/ /\ key = "X"
       /\ drop_current
       /\ UNCHANGED <<window_size, cursor_position>>
       /\ set_title
       /\ redraw_requested' = (pc' = "running")
       /\ UNCHANGED next_update_time
    \/ /\ key \notin {"Escape", "Left", "Right", "X"}
       /\ pc = "running"
       /\ ev' = Event("key_ignored", current_image_index, "none", "none",
                      FALSE)
       /\ redraw_requested' = FALSE
       /\ UNCHANGED next_update_time
       /\ UNCHANGED <<image_paths, current_image_index, seconds_elapsed,
                      renderer, gl_textures, files, file_events, pc,
                      window_size, cursor_position, title>>

\* main(): WindowEvent::KeyboardInput, the match on
\* (input.virtual_keycode, input.state) and on input.modifiers.shift().
KeyboardInput(key, state, shift) ==
    \/ /\ key = "Escape"
       /\ state = "Pressed"
       /\ pc = "running"
       /\ pc' = event_loop_run(pc, closure_control_flow("Exit"))
       /\ ev' = Event("escape", current_image_index, "none", "none", FALSE)
       /\ redraw_requested' = FALSE
       /\ UNCHANGED next_update_time
       /\ UNCHANGED <<image_paths, current_image_index, seconds_elapsed,
                      renderer, gl_textures, files, file_events,
                      window_size, cursor_position, title>>
    \/ /\ key = "Left"
       /\ state = "Pressed"
       /\ shift
       /\ shift_left
       /\ UNCHANGED <<window_size, cursor_position>>
       /\ set_title
       /\ redraw_requested' = FALSE
       /\ UNCHANGED next_update_time
    \/ /\ key = "Left"
       /\ state = "Pressed"
       /\ ~shift
       /\ cycle_left
       /\ UNCHANGED <<window_size, cursor_position>>
       /\ set_title
       /\ redraw_requested' = (pc' = "running")
       /\ UNCHANGED next_update_time
    \/ /\ key = "Right"
       /\ state = "Pressed"
       /\ shift
       /\ shift_right
       /\ UNCHANGED <<window_size, cursor_position>>
       /\ set_title
       /\ redraw_requested' = FALSE
       /\ UNCHANGED next_update_time
    \/ /\ key = "Right"
       /\ state = "Pressed"
       /\ ~shift
       /\ cycle_right
       /\ UNCHANGED <<window_size, cursor_position>>
       /\ set_title
       /\ redraw_requested' = (pc' = "running")
       /\ UNCHANGED next_update_time
    \/ /\ key = "X"
       /\ state = "Pressed"
       /\ drop_current
       /\ UNCHANGED <<window_size, cursor_position>>
       /\ set_title
       /\ redraw_requested' = (pc' = "running")
       /\ UNCHANGED next_update_time
    \/ /\ ~(key \in {"Escape", "Left", "Right", "X"} /\ state = "Pressed")
       /\ pc = "running"
       /\ ev' = Event("key_ignored", current_image_index, "none", "none",
                      FALSE)
       /\ redraw_requested' = FALSE
       /\ UNCHANGED next_update_time
       /\ UNCHANGED <<image_paths, current_image_index, seconds_elapsed,
                      renderer, gl_textures, files, file_events, pc,
                      window_size, cursor_position, title>>

\* A key event with any key code, element state and shift modifier.
KeyEvent ==
    \E input \in KeyboardInputs :
        KeyboardInput(input[1], input[2], input[3])

\* --------------------------------------------------------- window events
\* AppData::resize_window: the size is stored as it is given and handed to
\* the renderer (gl::Viewport has no effect on the state kept here).
resize_window(size) ==
    /\ window_size' = size
    /\ renderer' = StableAspectRatioImageRenderer_resize_window(renderer, size)

\* main(): WindowEvent::Resized(physical_size); the u32 width and height
\* are cast to i32, which keeps every value below 2^31.
Resized(size) ==
    /\ pc = "running"
    /\ resize_window(size)
    /\ ev' = Event("resized", current_image_index, "none", "none", FALSE)
    /\ redraw_requested' = FALSE
    /\ UNCHANGED next_update_time
    /\ UNCHANGED <<image_paths, current_image_index, seconds_elapsed,
                   gl_textures, files, file_events, pc, cursor_position,
                   title>>

\* `x as i32` for an f64 x given in half pixels: truncation toward zero.
f64_as_i32(halves) ==
    IF halves >= 0 THEN halves \div 2 ELSE 0 - ((0 - halves) \div 2)

\* Cursor positions reported by the window system, in half pixels.
CursorPositions == {<<0, 0>>, <<3, 1>>, <<0 - 1, 5>>}

\* main(): WindowEvent::CursorMoved { position, .. }
CursorMoved(position) ==
    /\ pc = "running"
    /\ cursor_position' = <<f64_as_i32(position[1]), f64_as_i32(position[2])>>
    /\ ev' = Event("cursor_moved", current_image_index, "none", "none", FALSE)
    /\ redraw_requested' = FALSE
    /\ UNCHANGED next_update_time
    /\ UNCHANGED <<image_paths, current_image_index, seconds_elapsed,
                   renderer, gl_textures, files, file_events, pc,
                   window_size>>
    /\ set_title

\* main(): WindowEvent::CloseRequested
CloseRequested ==
    /\ pc = "running"
    /\ pc' = event_loop_run(pc, closure_control_flow("Exit"))
    /\ ev' = Event("close_requested", current_image_index, "none", "none",
                   FALSE)
    /\ redraw_requested' = FALSE
    /\ UNCHANGED next_update_time
    /\ UNCHANGED <<image_paths, current_image_index, seconds_elapsed,
                   renderer, gl_textures, files, file_events, window_size,
                   cursor_position, title>>

\* main(): Event::RedrawRequested(_): AppData::redraw clears the frame and
\* renders the image the renderer holds, then the buffers are swapped.
\* Nothing of AppData changes.
RedrawRequested ==
    /\ pc = "running"
    /\ pc' = event_loop_run(pc, closure_control_flow("none"))
    /\ ev' = Event("redraw", current_image_index, "none", "none", FALSE)
    /\ redraw_requested' = FALSE
    /\ UNCHANGED <<image_paths, current_image_index, seconds_elapsed,
                   renderer, gl_textures, files, file_events, window_size,
                   cursor_position, title, next_update_time>>

\* main(): Event::LoopDestroyed, which the event loop delivers once when it
\* has ended: the closure assigns the deadline and returns.
LoopDestroyed ==
    /\ pc = "exited"
    /\ ev.op # "loop_destroyed"
    /\ pc' = event_loop_run(pc, closure_control_flow("none"))
    /\ ev' = Event("loop_destroyed", current_image_index, "none", "none",
                   FALSE)
    /\ redraw_requested' = FALSE
    /\ UNCHANGED <<image_paths, current_image_index, seconds_elapsed,
                   renderer, gl_textures, files, file_events, window_size,
                   cursor_position, title, next_update_time>>

\* ------------------------------------------------------------ environment
\* Another program rewrites a listed file with different content.
FileWrite ==
    /\ pc = "running"
    /\ file_events < MaxFileEvents
    /\ file_events' = file_events + 1
    /\ \E i \in DOMAIN image_paths, v \in Versions :
          LET p == image_paths[i].path
          IN /\ files[p] # <<v>>
             /\ files' = [files EXCEPT ![p] = <<v>>]
             /\ ev' = Event("file_write", current_image_index, "none",
                            "none", FALSE)
    /\ redraw_requested' = FALSE
    /\ UNCHANGED next_update_time
    /\ UNCHANGED <<image_paths, current_image_index, seconds_elapsed,
                   renderer, gl_textures, pc, window_size, cursor_position,
                   title>>

\* Another program removes a listed file.
FileRemove ==
    /\ pc = "running"
    /\ file_events < MaxFileEvents
    /\ file_events' = file_events + 1
    /\ \E i \in DOMAIN image_paths :
          LET p == image_paths[i].path
          IN /\ files[p] # <<>>
             /\ files' = [files EXCEPT ![p] = <<>>]
             /\ ev' = Event("file_remove", current_image_index, "none",
                            "none", FALSE)
    /\ redraw_requested' = FALSE
    /\ UNCHANGED next_update_time
    /\ UNCHANGED <<image_paths, current_image_index, seconds_elapsed,
                   renderer, gl_textures, pc, window_size, cursor_position,
                   title>>

Next ==
    \/ KeyEvent
    \/ ResumeTimeReached
    \/ FileWrite
    \/ FileRemove

Spec == Init /\ [][Next]_vars

\* The window events alone: keys, resizes, cursor moves and the close
\* button, with no timer wake-up and no change to the files.
InputNext ==
    \/ KeyEvent
    \/ \E size \in WindowSizes : Resized(size)
    \/ \E position \in CursorPositions : CursorMoved(position)
    \/ CloseRequested

InputSpec == Init /\ [][InputNext]_vars

\* Startup followed by the window events that end the process.
StartNext ==
    \/ AppData_new
    \/ KeyEvent
    \/ CloseRequested

StartSpec == StartInit /\ [][StartNext]_vars

\* The scale computation on its own: a renderer with pre-scale (1.0, 1.0)
\* holding any strictly positive window size and image size, before
\* recalculate_aspect_ratio runs on it.
FitInit ==
    \E w \in 1..MaxDim, h \in 1..MaxDim, iw \in 1..MaxDim, ih \in 1..MaxDim :
        /\ renderer = [StableAspectRatioImageRenderer_new
                          EXCEPT !.window_size = <<w, h>>,
                                 !.texture = 1,
                                 !.texture_size = <<iw, ih>>,
                                 !.texture_loaded = TRUE]
        /\ window_size = <<w, h>>
        /\ files = <<<<0>>>>
        /\ file_events = 0
        /\ image_paths = << >>
        /\ gl_textures = <<<<1, 0>>>>
        /\ current_image_index = 0
        /\ seconds_elapsed = 0
        /\ pc = "fit"
        /\ ev = Event("start", 0, "none", "none", FALSE)
        /\ cursor_position = <<0, 0>>
        /\ title = <<1>>
        /\ redraw_requested = FALSE
        /\ next_update_time = first_update_time

\* One call of StableAspectRatioImageRenderer::recalculate_aspect_ratio.
Recalculate ==
    /\ pc = "fit"
    /\ renderer' = recalculate_aspect_ratio(renderer)
    /\ pc' = "fitted"
    /\ ev' = Event("recalculate", 0, "none", "none", FALSE)
    /\ UNCHANGED <<image_paths, current_image_index, seconds_elapsed,
                   gl_textures, files, file_events, window_size,
                   cursor_position, title, redraw_requested,
                   next_update_time>>

FitNext == Recalculate

FitSpec == FitInit /\ [][FitNext]_vars

\* --------------------------------------------- the single-image variant
\* src/viewer: one image path, no cached Texture; every reload decodes the
\* file again and uploads it into the texture the renderer created.  The
\* path is 1, image_paths holds the one record [path, sig] and gl_textures
\* maps every generated texture name to the <<path, version>> uploaded into
\* it (<< >> before the first upload).

\* Variant of viewer_load_texture that generates a new texture for every
\* upload, as Texture::from_file of the list variant does.
viewer_load_texture_fresh_handle(gl, path, texture_id, decodes) ==
    IF files[path] = << >> \/ ~decodes
    THEN [ok |-> FALSE, gl |-> gl, size |-> <<0, 0>>]
    ELSE [ok |-> TRUE,
          gl |-> Append(gl, <<path, files[path][1]>>),
          size |-> image_size(path, files[path][1])]

\* load_texture(filename, texture_id): image::open fails on a missing or
\* undecodable file before any GL call; otherwise the pixels are uploaded
\* into texture_id with glTexImage2D.
viewer_load_texture(gl, path, texture_id, decodes) ==
    IF files[path] = << >> \/ ~decodes
    THEN [ok |-> FALSE, gl |-> gl, size |-> <<0, 0>>]
    ELSE [ok |-> TRUE,
          gl |-> [gl EXCEPT ![texture_id] = <<path, files[path][1]>>],
          size |-> image_size(path, files[path][1])]

\* ImageRenderer::set_texture_data(path) followed, on success, by
\* recalculate_aspect_ratio (StableAspectRatioImageRenderer::set_texture_data).
viewer_set_texture_data(r, gl, path, decodes) ==
    LET tex_data == viewer_load_texture(gl, path, r.texture, decodes)
    IN IF tex_data.ok
       THEN [res |-> "ok",
             renderer |-> recalculate_aspect_ratio(
                              [r EXCEPT !.texture_size = tex_data.size,
                                        !.texture_loaded = TRUE]),
             gl |-> tex_data.gl]
       ELSE [res |-> "err", renderer |-> r, gl |-> gl]

\* The state after AppData::new of the single-image variant succeeded on a
\* readable file: ImageRenderer::new generated texture 1 and the file's
\* version 0 was uploaded into it.
ViewerInit ==
    /\ files = <<<<0>>>>
    /\ file_events = 0
    /\ image_paths = <<[path |-> 1, sig |-> FileSignature_new(1).sig]>>
    /\ LET loaded ==
             viewer_set_texture_data(
                 [StableAspectRatioImageRenderer_new EXCEPT !.texture = 1],
                 <<<< >>>>, 1, TRUE)
       IN /\ renderer = loaded.renderer
          /\ gl_textures = loaded.gl
    /\ current_image_index = 0
    /\ seconds_elapsed = 0
    /\ pc = "running"
    /\ ev = Event("init", 0, "ok", "none", FALSE)
    /\ window_size = <<1, 1>>
    /\ cursor_position = <<0, 0>>
    /\ title = <<1>>
    /\ redraw_requested = FALSE
    /\ next_update_time = first_update_time

\* AppData::update(seconds) of the single-image variant, called from the
\* StartCause::ResumeTimeReached arm, which requests a redraw when it
\* returns true.
viewer_update(seconds) ==
    /\ pc = "running"
    /\ LET acc == seconds_elapsed + seconds
           f == image_paths[1]
           new == FileSignature_new(f.path)
       IN IF poll_due(acc)
          THEN /\ seconds_elapsed' = 0
               /\ IF new.ok
                  THEN IF ~FileSignature_eq(f.sig, new.sig)
                       THEN \E decodes \in BOOLEAN :
                              LET r == viewer_set_texture_data(
                                           renderer, gl_textures, f.path,
                                           decodes)
                              IN /\ image_paths' =
                                       store_sig(image_paths, 1, new.sig)
                                 /\ renderer' = r.renderer
                                 /\ gl_textures' = r.gl
                                 /\ ev' = Event("update", 0, r.res, "ok",
                                                is_ok(r.res))
                       ELSE /\ UNCHANGED <<image_paths, renderer,
                                           gl_textures>>
                            /\ ev' = Event("update", 0, "none", "ok", FALSE)
                  ELSE /\ UNCHANGED <<image_paths, renderer, gl_textures>>
                       /\ ev' = Event("update", 0, "none", "err", FALSE)
          ELSE /\ seconds_elapsed' = acc
               /\ UNCHANGED <<image_paths, renderer, gl_textures>>
               /\ ev' = Event("update", 0, "none", "none", FALSE)
    /\ redraw_requested' = ev'.ret
    /\ next_update_time' =
          advance_update_time(next_update_time, frame_duration)
    /\ UNCHANGED <<current_image_index, files, file_events, pc, window_size,
                   cursor_position, title>>

ViewerResumeTimeReached == viewer_update(frame_duration)

\* main() of the single-image variant, WindowEvent::KeyboardInput: Escape
\* ends the loop whether pressed or released, any other key does nothing.
ViewerKeyboardInput(key) ==
    /\ pc = "running"
    /\ pc' = event_loop_run(pc, closure_control_flow(
                                 IF key = "Escape" THEN "Exit" ELSE "none"))
    /\ ev' = Event(IF key = "Escape" THEN "escape" ELSE "key_ignored", 0,
                   "none", "none", FALSE)
    /\ redraw_requested' = FALSE
    /\ UNCHANGED next_update_time
    /\ UNCHANGED <<image_paths, current_image_index, seconds_elapsed,
                   renderer, gl_textures, files, file_events, window_size,
                   cursor_position, title>>

\* Another program rewrites the file with other content, removes it or
\* creates it again.
ViewerFileChange ==
    /\ pc = "running"
    /\ \E content \in {<< >>} \cup {<<v>> : v \in Versions} :
          /\ files[1] # content
          /\ files' = [files EXCEPT ![1] = content]
    /\ ev' = Event("file_write", 0, "none", "none", FALSE)
    /\ redraw_requested' = FALSE
    /\ UNCHANGED next_update_time
    /\ UNCHANGED <<image_paths, current_image_index, seconds_elapsed,
                   renderer, gl_textures, file_events, pc, window_size,
                   cursor_position, title>>

ViewerNext ==
    \/ ViewerResumeTimeReached
    \/ ViewerFileChange
    \/ \E size \in WindowSizes : Resized(size)
    \/ \E key \in {"Escape", "A"} : ViewerKeyboardInput(key)
    \/ CloseRequested

ViewerSpec == ViewerInit /\ [][ViewerNext]_vars

\* ------------------------------------------------ navigation round trips
\* k times cycle_right, one after the other.
RECURSIVE cycle_right_times(_, _, _)
cycle_right_times(k, paths, index) ==
    IF k = 0
    THEN [paths |-> paths, index |-> index]
    ELSE LET new == cycle_right_of(paths, index)
         IN cycle_right_times(k - 1, new.paths, new.index)

\* Two navigation operations one after the other, or as many cycle_right
\* as there are entries, from the given sequence and index (every reload
\* succeeding, so that none of them panics).
round_trip(kind, paths, index) ==
    CASE kind = "right_left" ->
            LET new == cycle_right_of(paths, index)
            IN cycle_left_of(new.paths, new.index)
      [] kind = "left_right" ->
            LET new == cycle_left_of(paths, index)
            IN cycle_right_of(new.paths, new.index)
      [] kind = "shift_right_left" ->
            LET new == shift_right_of(paths, index)
            IN shift_left_of(new.paths, new.index)
      [] kind = "shift_left_right" ->
            LET new == shift_left_of(paths, index)
            IN shift_right_of(new.paths, new.index)
      [] kind = "rights" -> cycle_right_times(Len(paths), paths, index)

TripKinds ==
    {"right_left", "left_right", "shift_right_left", "shift_left_right",
     "rights"}

\* Any listing of 1..MaxImages entries in any order, with any entry
\* current, as the navigation operations can leave it.
TripInit ==
    \E n \in 1..MaxImages :
      \E order \in {o \in [1..n -> 1..n] :
                       \A a, b \in 1..n : o[a] = o[b] => a = b} :
        \E index \in 0..(n - 1) :
            /\ files = [p \in 1..n |-> <<0>>]
            /\ image_paths =
                 [k \in 1..n |->
                    [texture |-> Texture_from_file(order[k], order[k], 0),
                     path |-> order[k],
                     sig |-> FileSignature_new(order[k]).sig]]
            /\ current_image_index = index
            /\ file_events = 0
            /\ gl_textures = [i \in 1..n |-> <<i, 0>>]
            /\ seconds_elapsed = 0
            /\ renderer = StableAspectRatioImageRenderer_new
            /\ pc = "trip"
            /\ ev = Event("start", 0, "none", "none", FALSE)
            /\ window_size = <<1, 1>>
            /\ cursor_position = <<0, 0>>
            /\ title = <<1>>
            /\ redraw_requested = FALSE
            /\ next_update_time = first_update_time

\* The operations of one round trip applied to AppData's sequence and
\* index.
RoundTrip(kind) ==
    /\ pc = "trip"
    /\ pc' = "tripped"
    /\ LET new == round_trip(kind, image_paths, current_image_index)
       IN /\ image_paths' = new.paths
          /\ current_image_index' = new.index
    /\ ev' = Event(kind, current_image_index, "none", "none", FALSE)
    /\ UNCHANGED <<seconds_elapsed, renderer, gl_textures, files,
                   file_events, window_size, cursor_position, title,
                   redraw_requested, next_update_time>>

TripNext == \E kind \in TripKinds : RoundTrip(kind)

TripSpec == TripInit /\ [][TripNext]_vars

\* ------------------------------------------- comparing file signatures
\* Largest timestamp and length of the signatures compared on their own.
MaxStamp == 1

\* Every FileSignature value: each timestamp None (<< >>) or Some(t).
FileSignatures ==
    [modified : {<< >>} \cup {<<t>> : t \in 0..MaxStamp},
     created : {<< >>} \cup {<<t>> : t \in 0..MaxStamp},
     len : 0..MaxStamp]

\* Two signatures held side by side, before they are compared.
SigInit ==
    \E a \in FileSignatures, b \in FileSignatures :
        /\ image_paths = <<[path |-> 1, sig |-> a], [path |-> 1, sig |-> b]>>
        /\ files = <<<<0>>>>
        /\ file_events = 0
        /\ gl_textures = << >>
        /\ current_image_index = 0
        /\ seconds_elapsed = 0
        /\ renderer = StableAspectRatioImageRenderer_new
        /\ pc = "sig"
        /\ ev = Event("start", 0, "none", "none", FALSE)
        /\ window_size = <<1, 1>>
        /\ cursor_position = <<0, 0>>
        /\ title = <<1>>
        /\ redraw_requested = FALSE
        /\ next_update_time = first_update_time

\* `f.sig == sig`, the comparison update() makes, on the two signatures;
\* its value is kept as the value of the event.
Compare ==
    /\ pc = "sig"
    /\ pc' = "compared"
    /\ ev' = Event("compare", 0, "none", "none",
                   FileSignature_eq(image_paths[1].sig, image_paths[2].sig))
    /\ UNCHANGED <<image_paths, current_image_index, seconds_elapsed,
                   renderer, gl_textures, files, file_events, window_size,
                   cursor_position, title, redraw_requested,
                   next_update_time>>

SigNext == Compare

SigSpec == SigInit /\ [][SigNext]_vars

\* Largest number of image paths in the runs that combine resizes with
\* polling.
ScaleImages == 2

ScaleInit == Init /\ Len(image_paths) <= ScaleImages

\* Everything that changes the window size or the displayed image: keys,
\* resizes, timer wake-ups and rewrites of the files.
ScaleNext ==
    \/ KeyEvent
    \/ \E size \in WindowSizes : Resized(size)
    \/ ResumeTimeReached
    \/ FileWrite

ScaleSpec == ScaleInit /\ [][ScaleNext]_vars

\* The whole event loop on at most ScaleImages images: every event the
\* closure matches, and rewrites of the files between them.
LoopNext ==
    \/ KeyEvent
    \/ ResumeTimeReached
    \/ \E size \in {<<2, 1>>} : Resized(size)
    \/ \E position \in {<<3, 1>>} : CursorMoved(position)
    \/ RedrawRequested
    \/ CloseRequested
    \/ LoopDestroyed
    \/ FileWrite

LoopSpec == ScaleInit /\ [][LoopNext]_vars

\* Polling without navigation: timer wake-ups, changes of the files,
\* resizes and redraws, no key event.  The closure leaves
\* WaitUntil(next_update_time) behind on every call and advances the
\* deadline on every wake-up, so as long as the loop runs the event loop
\* keeps delivering ResumeTimeReached: weak fairness.
LiveNext ==
    \/ ResumeTimeReached
    \/ FileWrite
    \/ FileRemove
    \/ \E size \in WindowSizes : Resized(size)
    \/ RedrawRequested

LiveSpec == Init /\ [][LiveNext]_vars /\ WF_vars(ResumeTimeReached)

TypeOK ==
    /\ pc \in {"start", "running", "panicked", "exited", "exit_failure",
             "fit", "fitted", "sig", "compared", "trip",
             "tripped"}
    /\ current_image_index \in Nat
    /\ seconds_elapsed \in 0..OneSecond
    /\ ev.op \in {"start", "init", "cycle_left", "cycle_right", "shift_left",
                  "shift_right", "drop_current", "update", "file_write",
                  "file_remove", "escape", "key_ignored", "resized",
                  "cursor_moved", "close_requested", "recalculate",
                  "redraw", "loop_destroyed", "compare"} \cup TripKinds

\* ================================================================= claims
\* The signature a capture of version v of a file yields.
SigOfVersion(v) ==
    [modified |-> <<(v + 1) \div 2>>, created |-> <<0>>,
     len |-> 1 + (v \div 2)]

\* A poll is due in the update call that starts in the current state.
PollDueNow == seconds_elapsed + frame_duration >= OneSecond

\* The renderer shows the cached texture of the entry at (0-based) index k
\* of sequence paths.
Shows(r, paths, k) ==
    /\ r.texture_loaded
    /\ r.texture = paths[k + 1].texture.texture_id
    /\ r.texture_size = paths[k + 1].texture.size

\* C1: in every reachable state, if the image sequence is non-empty then
\* 0 <= current_image_index < length of the sequence.
C1_IndexInRange ==
    Len(image_paths) > 0 =>
        current_image_index \in 0..(Len(image_paths) - 1)

\* A cycle_left from index 0 of three entries has wrapped to the last index.
C1_Witness ==
    /\ pc = "running"
    /\ ev.op = "cycle_left"
    /\ ev.from = 0
    /\ Len(image_paths) = 3
    /\ current_image_index = 2

\* C2: a drop_current on a sequence of exactly one entry leaves at least one
\* entry in the sequence and the viewer keeps running.
C2_DropKeepsLastEntry ==
    [][(ev'.op = "drop_current" /\ Len(image_paths) = 1) =>
          (Len(image_paths') >= 1 /\ pc' = "running")]_vars

\* C3: cycle_left moves the index to (i - 1) mod n and cycle_right to
\* (i + 1) mod n, the sequence is unchanged, and a reload of the new current
\* entry is made, which on success leaves that entry's texture in the
\* renderer.
C3_CycleMovesIndexModulo ==
    [][ev'.op \in {"cycle_left", "cycle_right"} =>
          LET n == Len(image_paths)
              i == current_image_index
          IN /\ n >= 1
             /\ image_paths' = image_paths
             /\ current_image_index' =
                   IF ev'.op = "cycle_left"
                   THEN (i - 1) % n ELSE (i + 1) % n
             /\ ev'.reload \in {"ok", "err"}
             /\ ev'.reload = "ok" =>
                   Shows(renderer', image_paths', current_image_index')
      ]_vars

\* A cycle_right from the last of three entries has wrapped to index 0 and
\* the renderer shows the first entry.
C3_Witness ==
    /\ ev.op = "cycle_right"
    /\ ev.from = 2
    /\ ev.reload = "ok"
    /\ Len(image_paths) = 3
    /\ current_image_index = 0
    /\ Shows(renderer, image_paths, 0)

\* C4: shift_right swaps the entries at i and (i + 1) mod n, shift_left those
\* at i and (i - 1) mod n; the index moves to the neighbour position, where
\* the entry that was current now is, and every other entry keeps its place.
C4_ShiftSwapsAndFollows ==
    [][ev'.op \in {"shift_left", "shift_right"} =>
          LET n == Len(image_paths)
              i == current_image_index
              j == IF ev'.op = "shift_right"
                   THEN (i + 1) % n ELSE (i - 1) % n
          IN /\ n >= 1
             /\ Len(image_paths') = n
             /\ image_paths'[j + 1] = image_paths[i + 1]
             /\ image_paths'[i + 1] = image_paths[j + 1]
             /\ \A k \in (1..n) \ {i + 1, j + 1} :
                   image_paths'[k] = image_paths[k]
             /\ current_image_index' = j
             /\ image_paths'[current_image_index' + 1] = image_paths[i + 1]
      ]_vars

\* shift_right at index 0 of [1,2,3] gave [2,1,3] with current index 1.
C4_Witness ==
    /\ ev.op = "shift_right"
    /\ ev.from = 0
    /\ Len(image_paths) = 3
    /\ <<image_paths[1].path, image_paths[2].path, image_paths[3].path>>
          = <<2, 1, 3>>
    /\ current_image_index = 1

\* C5: on a sequence of n >= 2 entries drop_current removes exactly the entry
\* at i, keeping the others in order; the new index is 0 if i was the last
\* index and i otherwise (the entry that followed the removed one); a reload
\* of the new current entry is made, which on success leaves that entry's
\* texture in the renderer.
C5_DropRemovesCurrent ==
    [][(ev'.op = "drop_current" /\ Len(image_paths) >= 2) =>
          LET n == Len(image_paths)
              i == current_image_index
          IN /\ Len(image_paths') = n - 1
             /\ \A k \in 1..(n - 1) :
                   image_paths'[k] =
                      IF k <= i THEN image_paths[k] ELSE image_paths[k + 1]
             /\ current_image_index' = IF i = n - 1 THEN 0 ELSE i
             /\ i < n - 1 =>
                   image_paths'[current_image_index' + 1] = image_paths[i + 2]
             /\ ev'.reload \in {"ok", "err"}
             /\ ev'.reload = "ok" =>
                   Shows(renderer', image_paths', current_image_index')
      ]_vars

\* drop_current at the last index of [1,2,3] gave [1,2] with index 0.
C5_Witness ==
    /\ ev.op = "drop_current"
    /\ ev.from = 2
    /\ ev.reload = "ok"
    /\ Len(image_paths) = 2
    /\ <<image_paths[1].path, image_paths[2].path>> = <<1, 2>>
    /\ current_image_index = 0
    /\ Shows(renderer, image_paths, 0)

\* C6: when the reload made by cycle_left, cycle_right or drop_current
\* fails, the viewer keeps running and the renderer keeps its texture.
C6_NavigationReloadFailureIgnored ==
    [][(ev'.op \in {"cycle_left", "cycle_right", "drop_current"}
          /\ ev'.reload = "err") =>
          (pc' = "running" /\ renderer' = renderer)]_vars

\* C7: after an update that detected a changed signature and reloaded
\* successfully, the displayed pixels and size are those of the current
\* file as it is on disk.
C7_ReloadShowsFileOnDisk ==
    (ev.op = "update" /\ ev.ret) =>
        LET f == image_paths[current_image_index + 1]
        IN /\ files[f.path] # <<>>
           /\ renderer.texture \in DOMAIN gl_textures
           /\ gl_textures[renderer.texture] = <<f.path, files[f.path][1]>>
           /\ renderer.texture_size = image_size(f.path, files[f.path][1])

\* C8: when a due poll finds a changed signature and the reload fails, the
\* stored signature becomes the captured one, the renderer and the textures
\* are unchanged and update returns false; a due poll that finds the
\* signature equal to the stored one makes no reload attempt; hence after
\* every successful capture the stored signature is the file's.
C8_FailedReloadStillStoresSignature ==
    [][ev'.op = "update" =>
          LET i == current_image_index + 1
              f == image_paths[i]
          IN (PollDueNow /\ files[f.path] # <<>>) =>
                LET new == SigOfVersion(files[f.path][1])
                IN /\ image_paths'[i].sig = new
                   /\ (f.sig # new /\ ev'.reload = "err") =>
                         /\ renderer' = renderer
                         /\ gl_textures' = gl_textures
                         /\ image_paths' = [image_paths EXCEPT ![i].sig = new]
                         /\ ~ev'.ret
                   /\ f.sig # new => ev'.reload \in {"ok", "err"}
                   /\ f.sig = new =>
                         /\ ev'.reload = "none"
                         /\ image_paths' = image_paths
                         /\ renderer' = renderer
      ]_vars

\* A poll found a changed signature, the reload failed, and the stored
\* signature is the file's new one.
C8_Witness ==
    /\ ev.op = "update"
    /\ ev.capture = "ok"
    /\ ev.reload = "err"
    /\ LET f == image_paths[current_image_index + 1]
       IN /\ files[f.path] = <<1>>
          /\ f.sig = SigOfVersion(1)

\* C9: a due poll whose signature capture fails (file missing) changes
\* nothing but the accumulator, which is reset: no reload is attempted and
\* update returns false.
C9_FailedCaptureChangesNothing ==
    [][(ev'.op = "update" /\ PollDueNow
          /\ files[image_paths[current_image_index + 1].path] = <<>>) =>
          /\ image_paths' = image_paths
          /\ current_image_index' = current_image_index
          /\ renderer' = renderer
          /\ gl_textures' = gl_textures
          /\ pc' = pc
          /\ seconds_elapsed' = 0
          /\ ev'.capture = "err"
          /\ ev'.reload = "none"
          /\ ~ev'.ret
      ]_vars

\* A poll ran while the current file was missing.
C9_Witness ==
    /\ ev.op = "update"
    /\ ev.capture = "err"
    /\ seconds_elapsed = 0
    /\ files[image_paths[current_image_index + 1].path] = <<>>

\* C10: the file check runs in exactly the update calls whose accumulator,
\* after adding the delta, reaches one second; such a call resets the
\* accumulator; every other call captures no signature and changes only the
\* accumulator; the accumulator is below one second after every update.
C10_PollExactlyWhenAccumulatorReachesOneSecond ==
    /\ [](seconds_elapsed < OneSecond)
    /\ [][ev'.op = "update" =>
             /\ PollDueNow =>
                   /\ seconds_elapsed' = 0
                   /\ ev'.capture \in {"ok", "err"}
             /\ ~PollDueNow =>
                   /\ seconds_elapsed' = seconds_elapsed + frame_duration
                   /\ ev'.capture = "none"
                   /\ ev'.reload = "none"
                   /\ ~ev'.ret
                   /\ UNCHANGED <<image_paths, current_image_index, renderer,
                                  gl_textures, files, file_events, pc,
                                  window_size, cursor_position, title>>
         ]_vars

\* A due poll ran, captured the signature and found it unchanged.
C10_Witness ==
    /\ ev.op = "update"
    /\ ev.capture = "ok"
    /\ ev.reload = "none"
    /\ seconds_elapsed = 0

\* C11: if the first image fails to load at startup the process prints a
\* message and terminates with exit code -1, otherwise startup completes
\* (and the process later exits with code 0).  As claimed, every run of
\* AppData::new ends in exit(-1) when the first file cannot be loaded and in
\* the running event loop otherwise.
FirstImageFails == ~FileSignature_new(1).ok

C11_StartupExitsMinusOneOrCompletes ==
    [][pc = "start" =>
          IF FirstImageFails \/ ev'.reload = "err"
          THEN pc' = "exit_failure"
          ELSE pc' = "running"]_vars

\* a <= b on f32 values (false when either is NaN).
f32_le(a, b) == (a.k # "nan" /\ a = b) \/ f32_lt(a, b)

\* The window and the image held by the renderer are both square.
SquareInSquare ==
    /\ renderer.window_size[1] = renderer.window_size[2]
    /\ renderer.texture_size[1] = renderer.texture_size[2]

\* C12: for all strictly positive window sizes and image sizes, with
\* pre-scale (1, 1), the computed scale has sx <= 1 and sy <= 1 and at least
\* one of them equal to 1; a square image in a square window gets (1, 1).
C12_ScaleAtMostOneAndOneAxisFull ==
    pc = "fitted" =>
        LET sx == renderer.scale_uniform[1]
            sy == renderer.scale_uniform[2]
        IN /\ f32_le(sx, f32_one)
           /\ f32_le(sy, f32_one)
           /\ sx = f32_one \/ sy = f32_one
           /\ SquareInSquare => (sx = f32_one /\ sy = f32_one)

\* A wide image in a tall window has been fitted: the vertical scale is
\* strictly below 1.
C12_Witness ==
    /\ pc = "fitted"
    /\ renderer.window_size = <<1, 2>>
    /\ renderer.texture_size = <<3, 1>>
    /\ renderer.scale_uniform[1] = f32_one
    /\ f32_lt(renderer.scale_uniform[2], f32_one)

\* An operation of the navigation model ran in the last step.
NavigationOps ==
    {"cycle_left", "cycle_right", "shift_left", "shift_right", "drop_current"}

\* C13: after every navigation action (cycle, shift, drop) and every cursor
\* move the window title is the string composed of the current entry's
\* path, the displayed image's width and height, index+1 and total with
\* 1 <= index+1 <= total, and the latest cursor position.  (A navigation
\* action that panicked has ended the process and set no title.)
C13_TitleComposedFromCurrentState ==
    [][(ev'.op \in NavigationOps \cup {"cursor_moved"} /\ pc' = "running") =>
          /\ 1 <= current_image_index' + 1
          /\ current_image_index' + 1 <= Len(image_paths')
          /\ title' = <<image_paths'[current_image_index' + 1].path,
                        renderer'.texture_size[1],
                        renderer'.texture_size[2],
                        current_image_index' + 1,
                        Len(image_paths'),
                        cursor_position'[1],
                        cursor_position'[2]>>
      ]_vars

\* After the cursor moved to (1, 0), cycle_right showed the second of three
\* entries and the title reads "2 | 1x2 | 2/3 | (1,0)".
C13_Witness ==
    /\ ev.op = "cycle_right"
    /\ pc = "running"
    /\ cursor_position = <<1, 0>>
    /\ title = <<2, 1, 2, 2, 3, 1, 0>>

\* What the key handler has to do for one key event.
C14_Dispatched(input) ==
    IF input[2] = "Pressed" /\ input[1] \in {"Left", "Right"}
    THEN IF input[3]
         THEN /\ ev'.op = IF input[1] = "Left" THEN "shift_left"
                          ELSE "shift_right"
              /\ image_paths'[current_image_index' + 1]
                    = image_paths[current_image_index + 1]
         ELSE /\ ev'.op = IF input[1] = "Left" THEN "cycle_left"
                          ELSE "cycle_right"
              /\ image_paths' = image_paths
    ELSE IF input[2] = "Pressed" /\ input[1] = "X"
    THEN ev'.op = "drop_current"
    ELSE /\ image_paths' = image_paths
         /\ current_image_index' = current_image_index

\* C14: a pressed Left/Right without Shift performs cycle_left/cycle_right,
\* with Shift it performs shift_left/shift_right instead (never both), a
\* pressed X performs drop_current, and a key release or any other key
\* changes neither the sequence nor the current index.
C14_KeyDispatch ==
    [][\A input \in KeyboardInputs :
          KeyboardInput(input[1], input[2], input[3]) => C14_Dispatched(input)
      ]_vars

\* A key the handler does not match arrived while the second of two entries
\* was current, and nothing moved.
C14_Witness ==
    /\ ev.op = "key_ignored"
    /\ Len(image_paths) = 2
    /\ current_image_index = 1
    /\ image_paths[1].path = 2

\* C15: shift_left and shift_right perform no reload: the texture bound in
\* the renderer, the displayed image size and the computed scale are
\* unchanged by a shift, and no redraw is requested for it.
C15_ShiftDoesNotReload ==
    [][ev'.op \in {"shift_left", "shift_right"} =>
          /\ ev'.reload = "none"
          /\ renderer'.texture = renderer.texture
          /\ renderer'.texture_size = renderer.texture_size
          /\ renderer'.scale_uniform = renderer.scale_uniform
          /\ gl_textures' = gl_textures
          /\ redraw_requested' = FALSE
      ]_vars

\* shift_left at index 0 of three entries wrapped to index 2 and left the
\* first image on display without a redraw request.
C15_Witness ==
    /\ ev.op = "shift_left"
    /\ ev.from = 0
    /\ current_image_index = 2
    /\ Len(image_paths) = 3
    /\ renderer.texture = image_paths[3].texture.texture_id
    /\ ~redraw_requested

\* C16: update returns true exactly when, in that call, a poll was due, the
\* signature capture succeeded, the captured signature differed from the
\* stored one (in which case a reload is made) and the reload succeeded;
\* the event loop requests a redraw on a timer wake iff update returned true.
C16_UpdateReturnsTrueIffReloaded ==
    [][ev'.op = "update" =>
          LET f == image_paths[current_image_index + 1]
              captured == files[f.path] # << >>
              differs == captured /\ SigOfVersion(files[f.path][1]) # f.sig
          IN /\ (PollDueNow /\ differs) => ev'.reload \in {"ok", "err"}
             /\ ev'.ret <=> (PollDueNow /\ differs /\ ev'.reload = "ok")
             /\ redraw_requested' <=> ev'.ret
      ]_vars

\* update returned true after a due poll found the file changed and the
\* reload succeeded, and a redraw was requested.
C16_Witness ==
    /\ ev.op = "update"
    /\ ev.ret
    /\ ev.capture = "ok"
    /\ ev.reload = "ok"
    /\ redraw_requested

\* C17: after startup and after any sequence of window resizes, successful
\* reloads and navigation operations, the scale last sent to the quad
\* renderer is the aspect-fit scale of the stored window size and the
\* displayed image's size: recomputing it now would change nothing.
C17_ScaleNeverStale ==
    pc = "running" =>
        /\ renderer.window_size = window_size
        /\ renderer.scale_uniform =
              recalculate_aspect_ratio(renderer).scale_uniform

\* A resize to the tall window 1x2 while the wide image 2x1 is displayed
\* has brought the vertical scale to 0.25.
C17_Witness ==
    /\ pc = "running"
    /\ ev.op = "resized"
    /\ window_size = <<1, 2>>
    /\ renderer.texture_size = <<2, 1>>
    /\ renderer.scale_uniform =
          <<f32_one, [k |-> "fin", m |-> f32_min_significand, e |-> 0 - 25]>>

RECURSIVE Pow2(_)
Pow2(n) == IF n <= 0 THEN 1 ELSE 2 * Pow2(n - 1)

\* The branch of the aspect-fit computation, by the exact aspect ratios
\* w/h and iw/ih: the axis that is not shrunk keeps the scale 1.
C18_Branch ==
    LET w == renderer.window_size[1]
        h == renderer.window_size[2]
        iw == renderer.texture_size[1]
        ih == renderer.texture_size[2]
    IN IF w * ih < iw * h
       THEN renderer.scale_uniform[1] = f32_one
       ELSE renderer.scale_uniform[2] = f32_one

\* s * p = q for the f32 value s = m * 2^e (0 < s <= 1) and positive
\* integers p, q, to within q * 2^(-slack): |m * p / q - 2^(-e)| is at most
\* 2^(-e - slack), or exactly 0 when exact.
C18_ProductIs(s, p, q, exact, slack) ==
    LET t == s.m * p
        X == Pow2(0 - s.e)
        D == Pow2(0 - s.e - slack)
    IN /\ s.k = "fin"
       /\ s.m > 0
       /\ IF exact
          THEN t % q = 0 /\ t \div q = X
          ELSE t \div q >= X - D /\ (t + q - 1) \div q <= X + D

\* sx * w * ih = sy * h * iw, where the axis of C18_Branch has scale 1.
C18_RatioPreserved(exact) ==
    LET w == renderer.window_size[1]
        h == renderer.window_size[2]
        iw == renderer.texture_size[1]
        ih == renderer.texture_size[2]
    IN IF w * ih < iw * h
       THEN C18_ProductIs(renderer.scale_uniform[2], h * iw, w * ih,
                          exact, 22)
       ELSE C18_ProductIs(renderer.scale_uniform[1], w * ih, h * iw,
                          exact, 22)

C19_WindowSizeAtLeastOne ==
    pc = "running" =>
        /\ window_size[1] >= 1
        /\ window_size[2] >= 1
        /\ renderer.window_size[1] >= 1
        /\ renderer.window_size[2] >= 1

\* C20: a reload re-uploads into the existing texture handle: across any
\* number of poll-triggered reloads, successful or failed, the texture
\* handle bound in the renderer is the same one and the set of allocated
\* texture handles does not grow after startup; a successful reload leaves
\* the file's current content in that handle, a failed one leaves the
\* textures as they were.
C20_ReloadReusesTextureHandle ==
    [][/\ renderer'.texture = renderer.texture
       /\ DOMAIN gl_textures' = DOMAIN gl_textures
       /\ (ev'.op = "update" /\ ev'.reload = "ok") =>
              gl_textures' = [gl_textures EXCEPT ![renderer.texture] =
                                                   <<1, files[1][1]>>]
       /\ ~(ev'.op = "update" /\ ev'.reload = "ok") =>
              gl_textures' = gl_textures
      ]_vars

\* A poll found the file rewritten with version 1 and uploaded it into
\* texture 1, still the only texture.
C20_Witness ==
    /\ ev.op = "update"
    /\ ev.reload = "ok"
    /\ renderer.texture = 1
    /\ gl_textures = <<<<1, 1>>>>
    /\ renderer.texture_size = image_size(1, 1)

\* C21: every GPU texture handle that is created is released exactly once;
\* in particular, when drop_current removes an entry and the viewer goes on
\* with the entries left, the texture the removed entry cached has been
\* released: after the drop its handle is no longer allocated.
C21_DroppedEntryTextureReleased ==
    [][(ev'.op = "drop_current" /\ pc' = "running") =>
          image_paths[current_image_index + 1].texture.texture_id
              \notin DOMAIN gl_textures'
      ]_vars

C23_StampsMatch(x, y) ==
    \/ Len(x) = 0 /\ Len(y) = 0
    \/ Len(x) = 1 /\ Len(y) = 1 /\ x[1] = y[1]

\* C23: two file signatures compare equal if and only if their modified
\* time, created time and length all match, a missing timestamp matching
\* only a missing timestamp; a signature equals itself, and two signatures
\* with identical timestamps but different lengths compare as changed.
C23_SignatureEquality ==
    pc = "compared" =>
        LET a == image_paths[1].sig
            b == image_paths[2].sig
        IN /\ ev.ret <=> /\ C23_StampsMatch(a.modified, b.modified)
                         /\ C23_StampsMatch(a.created, b.created)
                         /\ a.len = b.len
           /\ a = b => ev.ret
           /\ (/\ a.modified = b.modified
               /\ a.created = b.created
               /\ a.len # b.len) => ~ev.ret

\* Two signatures with the same timestamps and different lengths were
\* compared and found different.
C23_Witness ==
    /\ pc = "compared"
    /\ image_paths[1].sig = [modified |-> <<1>>, created |-> << >>, len |-> 0]
    /\ image_paths[2].sig = [modified |-> <<1>>, created |-> << >>, len |-> 1]
    /\ ~ev.ret

\* C24: live reload settles.  With timer wake-ups continuing, no navigation,
\* and the files changing only finitely often, eventually and from then on:
\* if the current file can be read, the stored signature of the current
\* entry is the signature of the file and the last event triggered no
\* reload.
C24_LiveReloadSettles ==
    <>[](LET f == image_paths[current_image_index + 1]
         IN files[f.path] # << >> =>
               /\ f.sig = SigOfVersion(files[f.path][1])
               /\ ev.reload = "none")

\* A poll found the current file rewritten with version 1, stored its
\* signature and reloaded.
C24_Witness ==
    LET f == image_paths[current_image_index + 1]
    IN /\ ev.op = "update"
       /\ ev.capture = "ok"
       /\ ev.reload = "ok"
       /\ files[f.path] = <<1>>
       /\ f.sig = SigOfVersion(1)

\* C25: navigation round trips.  From every non-empty sequence and every
\* current index, cycle_right then cycle_left, cycle_left then cycle_right,
\* shift_right then shift_left, shift_left then shift_right, and as many
\* cycle_right as there are entries, all lead back to the sequence order and
\* the current index they started from.
C25_RoundTripsRestore ==
    [][(pc = "trip" /\ pc' = "tripped") =>
          /\ image_paths' = image_paths
          /\ current_image_index' = current_image_index
      ]_vars

\* shift_left then shift_right from the first of three entries, which goes
\* through the last position and back.
C25_Witness ==
    /\ pc = "tripped"
    /\ ev.op = "shift_left_right"
    /\ ev.from = 0
    /\ current_image_index = 0
    /\ Len(image_paths) = 3
    /\ image_paths[1].path = 2

\* C26: after startup and after every navigation operation whose reload
\* succeeded, the renderer shows the cached texture of the entry at
\* current_image_index, with that entry's size; a shift keeps this true
\* without touching the renderer, and after a drop the texture of the
\* removed entry is no longer the one displayed.
C26_RendererShowsCurrentEntry ==
    [][pc' = "running" =>
          /\ Shows(renderer', image_paths', current_image_index')
          /\ ev'.op \in {"shift_left", "shift_right"} => renderer' = renderer
          /\ ev'.op = "drop_current" =>
                renderer'.texture #
                    image_paths[current_image_index + 1].texture.texture_id
      ]_vars

\* Startup listed three files, the user moved the first entry to the right
\* and dropped it; the renderer shows what is now the current entry.
C26_Witness ==
    /\ pc = "running"
    /\ ev.op = "drop_current"
    /\ ev.from = 1
    /\ Len(image_paths) = 2
    /\ image_paths[1].path = 2
    /\ current_image_index = 1
    /\ renderer.texture = 3
    /\ renderer.texture_size = image_size(3, 0)

\* The entries of a sequence, as a set.
C27_Entries(paths) == {paths[k] : k \in DOMAIN paths}

\* C27: path, stored signature and cached texture of an entry stay together
\* under navigation.  cycle_left and cycle_right leave the sequence as it
\* is; shift_left and shift_right keep the same entries, whole, in another
\* order; drop_current removes exactly the current entry, whole; and the
\* length changes only by drop_current and only by one.
C27_EntriesStayWhole ==
    [][/\ ev'.op \in {"cycle_left", "cycle_right"} =>
              image_paths' = image_paths
       /\ ev'.op \in {"shift_left", "shift_right"} =>
              /\ Len(image_paths') = Len(image_paths)
              /\ C27_Entries(image_paths') = C27_Entries(image_paths)
       /\ ev'.op = "drop_current" =>
              /\ Len(image_paths') = Len(image_paths) - 1
              /\ C27_Entries(image_paths') =
                    C27_Entries(image_paths) \
                        {image_paths[current_image_index + 1]}
       /\ Len(image_paths') # Len(image_paths) => ev'.op = "drop_current"
      ]_vars

\* Two entries with different stored signatures (the second file was
\* rewritten and polled) have just been exchanged by shift_right; each still
\* has its own path, signature and texture.
C27_Witness ==
    /\ ev.op = "shift_right"
    /\ Len(image_paths) = 2
    /\ image_paths[1].path = 2
    /\ image_paths[1].texture.texture_id = 2
    /\ image_paths[2].path = 1
    /\ image_paths[2].texture.texture_id = 1
    /\ image_paths[1].sig # image_paths[2].sig

\* The stored signature of the entry that holds path p.
C28_StoredSig(paths, p) ==
    (CHOOSE f \in {paths[k] : k \in DOMAIN paths} : f.path = p).sig

\* C28: a poll looks at the current entry only.  The stored signature of an
\* entry changes in no step other than an update made while that entry is
\* the current one, so a file rewritten while its entry was not current
\* keeps differing from its stored signature through navigation; and a poll
\* that finds the current file readable with a signature other than the
\* stored one stores it and reloads.
C28_PollLooksAtCurrentEntryOnly ==
    [][/\ \A k \in DOMAIN image_paths' :
             LET p == image_paths'[k].path
             IN C28_StoredSig(image_paths', p) #
                    C28_StoredSig(image_paths, p) =>
                  /\ ev'.op = "update"
                  /\ image_paths[current_image_index + 1].path = p
       /\ (/\ ev'.op = "update"
           /\ PollDueNow
           /\ LET f == image_paths[current_image_index + 1]
              IN /\ files[f.path] # << >>
                 /\ SigOfVersion(files[f.path][1]) # f.sig) =>
              /\ ev'.capture = "ok"
              /\ ev'.reload # "none"
              /\ image_paths'[current_image_index + 1].sig =
                    SigOfVersion(
                        files[image_paths[current_image_index + 1].path][1])
      ]_vars

\* The second file was rewritten, the user went to its entry, and the poll
\* there found the change, while the first entry's signature is as before.
C28_Witness ==
    /\ ev.op = "update"
    /\ ev.from = 1
    /\ ev.reload = "ok"
    /\ current_image_index = 1
    /\ image_paths[2].path = 2
    /\ image_paths[2].sig = SigOfVersion(1)
    /\ image_paths[1].path = 1
    /\ image_paths[1].sig = SigOfVersion(0)
    /\ files[1] = <<0>>

\* C29: only timer wake-ups drive polling.  Each ResumeTimeReached calls
\* update once with one frame: the accumulator grows by frame_duration, or
\* returns to 0 when the poll is due, and the wake-up deadline advances by
\* one frame (on the clock kept modulo the poll period).  Every other
\* event (key, resize, cursor, redraw, close, loop end) leaves the
\* accumulator, the deadline and the stored signature of every entry as
\* they were.
C29_OnlyTimerWakesDrivePolling ==
    [][/\ ev'.op = "update" =>
             /\ seconds_elapsed' =
                   IF PollDueNow THEN 0 ELSE seconds_elapsed + frame_duration
             /\ next_update_time' =
                   (next_update_time + frame_duration) % ClockPeriod
       /\ ev'.op \notin {"update", "file_write", "file_remove"} =>
             /\ seconds_elapsed' = seconds_elapsed
             /\ next_update_time' = next_update_time
             /\ \A k \in DOMAIN image_paths' :
                   LET p == image_paths'[k].path
                   IN C28_StoredSig(image_paths', p) =
                          C28_StoredSig(image_paths, p)
      ]_vars

\* The first timer wake-up came after the user had gone to the second
\* entry: one frame is on the accumulator and the deadline is one frame on.
C29_Witness ==
    /\ ev.op = "update"
    /\ current_image_index = 1
    /\ seconds_elapsed = frame_duration
    /\ next_update_time = (first_update_time + frame_duration) % ClockPeriod
    /\ cursor_position = <<1, 0>>
    /\ window_size = <<2, 1>>

=============================================================================
